---- MODULE Spec2Model ----
(***************************************************************************)
(* A model of papis' document record handling:                            *)
(*   - the update command (papis/commands/update.py: cli, run),           *)
(*   - the key-conversion engine (papis/document.py:                      *)
(*     keyconversion_to_data, author_list_to_author),                     *)
(*   - the type-aware document sort (papis/document.py: sort),            *)
(*   - the Document entity and its record file (papis/document.py:        *)
(*     Document, move) and dump.                                          *)
(* Python dicts are functions whose DOMAIN is the set of keys present;    *)
(* Python strings that are taken apart (stripped, parsed) are sequences   *)
(* of characters.                                                         *)
(***************************************************************************)
EXTENDS Integers, Sequences, FiniteSets, TLC

VARIABLES
    \* ---- update command -------------------------------------------------
    documents,          \* the batch: sequence of in-memory Documents
    set_tuples,         \* --set key/value pairs of the invocation
    from_importer,      \* data fetched by the importers named with --from
    auto,               \* --auto flag
    pc,                 \* position of cli: "cli", "doc", "probe", "collect",
                        \* "done", "raised" (an exception left cli)
    idx,                \* index of the document the loop is at
    probe,              \* index of the importer class the auto loop is at
    matching_importers, \* importers collected for the current document
    ctx_data,           \* ctx.data of the current document
    imported,           \* imported.data as collected, before 'ref' is removed
    disk,               \* per document: the record file's content or NoFile
    orig,               \* history: the batch as it was when cli started
    probed,             \* history: outcome of every importer probed so far
    \* ---- key conversion --------------------------------------------------
    conversions,        \* sequence of KeyConversionPair
    conv_data,          \* the foreign data
    keep_unknown_keys,  \* the flag of the same name
    conv_pc,            \* "call" before keyconversion_to_data, "done" after
    conv_result,        \* what keyconversion_to_data returned (or Raised)
    \* ---- sort ------------------------------------------------------------
    docs,               \* the documents handed to sort, in input order
    sort_key,           \* the key to sort by
    reverse,            \* the reverse flag
    sort_pc,            \* "call" before sort, "done" after
    sorted_docs,        \* what sort returned
    \* ---- Document entity and the filesystem -----------------------------
    d_folder,           \* Document._folder (<<>> is None)
    d_info_file_path,   \* Document._info_file_path (<<>> is "")
    d_fields,           \* the Document's own dict
    fs_dirs,            \* the directories that exist
    fs_files,           \* the files that exist: path -> content
    d_subfolder,        \* Document.subfolder
    doc_op,             \* the last operation called on the Document
    doc_err,            \* the exception that operation raised, or NoError
    pre,                \* history: the Document and the files before it
    \* ---- dump ------------------------------------------------------------
    dump_doc,           \* the document handed to dump
    dump_pc,            \* "call" before dump, "done" after
    dumped              \* what dump returned

update_vars == <<documents, set_tuples, from_importer, auto, pc, idx, probe,
                 matching_importers, ctx_data, imported, disk, orig, probed>>

conv_vars == <<conversions, conv_data, keep_unknown_keys, conv_pc, conv_result>>

sort_vars == <<docs, sort_key, reverse, sort_pc, sorted_docs>>

doc_vars == <<d_folder, d_info_file_path, d_subfolder, d_fields, fs_dirs, fs_files,
              doc_op, doc_err, pre>>

dump_vars == <<dump_doc, dump_pc, dumped>>

vars == <<update_vars, conv_vars, sort_vars, doc_vars, dump_vars>>

-----------------------------------------------------------------------------
(* Python dict helpers *)

EmptyDict == [k \in {} |-> ""]

\* dict.update(other): keys of other win
DictUpdate(d, other) ==
    [k \in (DOMAIN d) \cup (DOMAIN other) |->
        IF k \in DOMAIN other THEN other[k] ELSE d[k]]

\* del d[key]
DictDel(d, key) == [k \in (DOMAIN d) \ {key} |-> d[k]]

\* all dicts with keys among keys and values taken from allowed[k]
DictsOver(keys, allowed) ==
    UNION { { d \in [S -> UNION {allowed[k] : k \in keys}] :
                \A k \in S : d[k] \in allowed[k] } : S \in SUBSET keys }

\* all sequences over S of length 0..n
SeqsUpTo(S, n) == UNION { [1..m -> S] : m \in 0..n }

-----------------------------------------------------------------------------
(* Bounds of the update model *)

MaxDocs == 2            \* documents in a batch
NumImporters == 2       \* importer classes returned by get_importers()

NoFile == "NoFile"
NoFolder == "None"

UpdateKeys == {"tags", "ref"}

ImporterValues == [k \in UpdateKeys |->
    IF k = "tags" THEN {"c"} ELSE {"X"}]

\* the fields a document of the batch starts with
DocFieldsSet ==
    { [tags |-> "a"], [tags |-> "a", ref |-> "r"] }

\* a Document: its folder, its info file path and its fields (the dict itself)
DocumentSet ==
    { [folder |-> f, info_file |-> IF f = NoFolder THEN "" ELSE "info.yaml",
       fields |-> d] :
        f \in {NoFolder, "lib/doc"}, d \in DocFieldsSet }

\* a --set tuple: a key and either a literal or a template "{doc[key]}"
SetTupleSet ==
    { <<>>,
      << [key |-> "tags", lit |-> TRUE, value |-> "b"] >>,
      << [key |-> "ref", lit |-> TRUE, value |-> "rb"],
         [key |-> "tags", lit |-> FALSE, value |-> "ref"] >> }

FromImporterSet == { <<>>, << [name |-> 0, data |-> [tags |-> "f"]] >> }

-----------------------------------------------------------------------------
(* Collaborators of the update command that live outside src/ *)

\* Document.__missing__: an absent key reads as the empty string
DocGet(fields, key) == IF key \in DOMAIN fields THEN fields[key] ELSE ""

\* papis.document.process_set_tuples: evaluate each value against the document
RECURSIVE ProcessSetTuples(_, _)
ProcessSetTuples(fields, tuples) ==
    IF tuples = <<>> THEN EmptyDict
    ELSE LET t == Head(tuples)
             v == IF t.lit THEN t.value ELSE DocGet(fields, t.value)
         IN  DictUpdate([k \in {t.key} |-> v],
                        ProcessSetTuples(fields, Tail(tuples)))

\* papis.utils.get_matching_importer_by_name: the importers named with --from
GetMatchingImporterByName(named) == named

\* papis.utils.collect_importer_data: overlay the importers' data in order
RECURSIVE CollectImporterData(_)
CollectImporterData(importers) ==
    IF importers = <<>> THEN EmptyDict
    ELSE DictUpdate(importers[1].data, CollectImporterData(Tail(importers)))


-----------------------------------------------------------------------------
(* The update command: cli (update.py:115-178) and run (update.py:59-86) *)

\* the key-conversion engine is not running
ConvIdle ==
    /\ conversions = <<>>
    /\ conv_data = EmptyDict
    /\ keep_unknown_keys = FALSE
    /\ conv_pc = "idle"
    /\ conv_result = EmptyDict

\* sort is not running
SortIdle ==
    /\ docs = <<>>
    /\ sort_key = ""
    /\ reverse = FALSE
    /\ sort_pc = "idle"
    /\ sorted_docs = <<>>

\* no Document is being operated on
DocIdle ==
    /\ d_folder = <<>>
    /\ d_info_file_path = <<>>
    /\ d_fields = EmptyDict
    /\ fs_dirs = {}
    /\ fs_files = <<>>
    /\ d_subfolder = <<>>
    /\ doc_op = "idle"
    /\ doc_err = "idle"
    /\ pre = <<>>

\* dump is not running
DumpIdle ==
    /\ dump_doc = <<>>
    /\ dump_pc = "idle"
    /\ dumped = <<>>

\* how the calls made on one importer class end (update.py:151-157)
ProbeKinds ==
    { "match_none",         \* match_data returns None
      "match_notimpl",      \* match_data raises NotImplementedError
      "match_exc",          \* match_data raises another Exception
      "fetch_data_ok",      \* match_data returns an importer, fetch_data returns
      "fetch_data_exc",     \* fetch_data raises another Exception
      "fetch_ok",           \* fetch_data raises NotImplementedError, fetch returns
      "fetch_notimpl",      \* ... and fetch raises NotImplementedError
      "fetch_exc" }         \* ... and fetch raises another Exception

\* what an importer call can leave in importer.ctx.data
ImporterDataSet == DictsOver(UpdateKeys, ImporterValues)

\* a failed call leaves nothing that is used; the legacy fetch leaves tags
ProbeOutcomes ==
    { [kind |-> k, data |-> EmptyDict] :
        k \in ProbeKinds \ {"fetch_data_ok", "fetch_ok"} }
    \cup { [kind |-> "fetch_data_ok", data |-> d] : d \in ImporterDataSet }
    \cup { [kind |-> "fetch_ok", data |-> [tags |-> "d"]] }

\* mutant: an Exception raised by the fetch fallback is not caught
ProbeResultFetchUncaught(kind, data) ==
    CASE kind \in {"match_notimpl", "match_exc", "match_none",
                   "fetch_data_exc", "fetch_notimpl"} -> "skip"
      [] kind = "fetch_exc" -> "propagate"
      [] kind \in {"fetch_data_ok", "fetch_ok"} ->
            IF data # EmptyDict THEN "append" ELSE "skip"

\* the try / except / else of update.py:151-164 for one importer class:
\* "append" (else branch, importer and importer.ctx truthy), "skip" (continue,
\* logged, or nothing to append) or "propagate" (the exception leaves cli)
ProbeResult(kind, data) ==
    CASE kind = "match_notimpl"  -> "skip"       \* except NotImplementedError
      [] kind = "match_exc"      -> "skip"       \* except Exception: logged
      [] kind = "match_none"     -> "skip"       \* else: importer is None
      [] kind = "fetch_data_exc" -> "skip"       \* except Exception: logged
      [] kind = "fetch_notimpl"  -> "skip"       \* except NotImplementedError
      [] kind = "fetch_exc"      -> "skip"       \* except Exception: logged
      [] kind \in {"fetch_data_ok", "fetch_ok"} ->
            IF data # EmptyDict THEN "append" ELSE "skip"

\* mutant: the context is overlaid on the imported data (the document wins)
OverlayImportedUnder(ctx, imp) ==
    DictUpdate(IF "ref" \in DOMAIN imp THEN DictDel(imp, "ref") ELSE imp, ctx)

\* mutant: 'ref' is not removed from the imported data
OverlayImportedKeepRef(ctx, imp) == DictUpdate(ctx, imp)

\* update.py:166-176: collect, drop 'ref', overlay on the context
OverlayImported(ctx, imp) ==
    DictUpdate(ctx, IF "ref" \in DOMAIN imp THEN DictDel(imp, "ref") ELSE imp)

\* run (update.py:66-71): does the document have a folder and an info file?
RunRaises(doc) == doc.folder = NoFolder \/ doc.info_file = ""

UpdateInit ==
    /\ documents \in SeqsUpTo(DocumentSet, MaxDocs)
    /\ set_tuples \in SetTupleSet
    /\ from_importer \in FromImporterSet
    /\ auto \in BOOLEAN
    /\ pc = "cli"
    /\ idx = 0
    /\ probe = 0
    /\ matching_importers = <<>>
    /\ ctx_data = EmptyDict
    /\ imported = EmptyDict
    /\ disk = [i \in DOMAIN documents |->
                 IF documents[i].folder = NoFolder THEN NoFile
                 ELSE documents[i].fields]
    /\ orig = documents
    /\ probed = <<>>
    /\ ConvIdle
    /\ SortIdle
    /\ DocIdle
    /\ DumpIdle

\* update.py:128-135
CliBegin ==
    /\ pc = "cli"
    /\ IF documents = <<>>
       THEN pc' = "done" /\ idx' = idx
       ELSE pc' = "doc" /\ idx' = 1
    /\ UNCHANGED <<documents, set_tuples, from_importer, auto, probe,
                   matching_importers, ctx_data, imported, disk, orig, probed>>

\* update.py:137-149: a loop iteration up to the auto loop
DocBegin ==
    /\ pc = "doc"
    /\ LET document == documents[idx] IN
        /\ ctx_data' = DictUpdate(DictUpdate(EmptyDict, document.fields),
                                  ProcessSetTuples(document.fields, set_tuples))
        /\ matching_importers' = GetMatchingImporterByName(from_importer)
        /\ IF from_importer = <<>> /\ auto /\ NumImporters > 0
           THEN pc' = "probe" /\ probe' = 1
           ELSE pc' = "collect" /\ probe' = 0
    /\ imported' = EmptyDict
    /\ probed' = <<>>
    /\ UNCHANGED <<documents, set_tuples, from_importer, auto, idx, disk, orig>>

\* update.py:150-164: one importer class of the auto loop
ProbeImporter ==
    /\ pc = "probe"
    /\ \E o \in ProbeOutcomes :
        /\ probed' = Append(probed, o)
        /\ LET res == ProbeResult(o.kind, o.data) IN
            IF res = "propagate"
            THEN /\ pc' = "raised"
                 /\ UNCHANGED <<probe, matching_importers>>
            ELSE /\ matching_importers' =
                        IF res = "append"
                        THEN Append(matching_importers,
                                    [name |-> probe, data |-> o.data])
                        ELSE matching_importers
                 /\ probe' = probe + 1
                 /\ pc' = IF probe = NumImporters THEN "collect" ELSE "probe"
    /\ UNCHANGED <<documents, set_tuples, from_importer, auto, idx, ctx_data,
                   imported, disk, orig>>

\* update.py:166-178 and run (update.py:59-80), git and auto_doctor off
DocApply ==
    /\ pc = "collect"
    /\ LET document == documents[idx]
           collected == CollectImporterData(matching_importers)
           data      == OverlayImported(ctx_data, collected)
       IN
        /\ imported' = collected
        /\ ctx_data' = data
        /\ IF RunRaises(document)
           THEN \* DocumentFolderNotFound leaves run and cli
                /\ pc' = "raised"
                /\ UNCHANGED <<documents, disk, idx>>
           ELSE /\ documents' = [documents EXCEPT ![idx].fields =
                                    DictUpdate(document.fields, data)]
                /\ disk' = [disk EXCEPT ![idx] = documents'[idx].fields]
                /\ idx' = idx + 1
                /\ pc' = IF idx = Len(documents) THEN "done" ELSE "doc"
    /\ UNCHANGED <<set_tuples, from_importer, auto, probe, matching_importers,
                   orig, probed>>

UpdateNext ==
    /\ CliBegin \/ DocBegin \/ ProbeImporter \/ DocApply
    /\ UNCHANGED <<conv_vars, sort_vars, doc_vars, dump_vars>>

Init == UpdateInit

Next == UpdateNext

Spec == Init /\ [][Next]_vars


-----------------------------------------------------------------------------
(* Claims about the update command *)

\* the document whose merged mapping ctx_data now holds (0: none yet)
MergedDoc == IF pc = "raised" THEN idx ELSE idx - 1

HasMerged == pc \in {"doc", "done", "raised"} /\ MergedDoc >= 1

\* the document MergedDoc was updated and saved (run did not raise)
WasSaved == HasMerged /\ pc # "raised"

Overrides(j) == ProcessSetTuples(orig[j].fields, set_tuples)

\* C1: the merged mapping holds, for every key, the importer value (unless
\* the key is 'ref'), else the override value, else the document's own
\* value; keys in no overlay keep their value; the mapping is what the
\* document and its record file hold after the update.
C1_MergePrecedence ==
    HasMerged =>
        LET j == MergedDoc
            own == orig[j].fields
            ovr == Overrides(j)
            impKeys == (DOMAIN imported) \ {"ref"}
        IN  /\ DOMAIN ctx_data = impKeys \cup DOMAIN ovr \cup DOMAIN own
            /\ \A k \in DOMAIN ctx_data :
                 ctx_data[k] = IF k \in impKeys THEN imported[k]
                               ELSE IF k \in DOMAIN ovr THEN ovr[k]
                               ELSE own[k]
            /\ WasSaved => /\ documents[j].fields = ctx_data
                           /\ disk[j] = ctx_data

\* fields {tags: a}, override {tags: b}, importer {tags: c} were merged to c
C1_Witness ==
    /\ WasSaved
    /\ "tags" \in DOMAIN orig[MergedDoc].fields
    /\ orig[MergedDoc].fields["tags"] = "a"
    /\ "tags" \in DOMAIN Overrides(MergedDoc)
    /\ Overrides(MergedDoc)["tags"] = "b"
    /\ "tags" \in DOMAIN imported
    /\ imported["tags"] = "c"
    /\ disk[MergedDoc]["tags"] = "c"

\* C2: a 'ref' collected from the importers never reaches the merged mapping:
\* the merged 'ref' is never an importer's value, and a document that had a
\* 'ref' (no override setting it) keeps and saves that same 'ref'.
C2_RefNeverImported ==
    HasMerged =>
        LET j == MergedDoc
            own == orig[j].fields
        IN  /\ "ref" \in DOMAIN ctx_data => ctx_data["ref"] \notin ImporterValues["ref"]
            /\ ("ref" \in DOMAIN own /\ "ref" \notin DOMAIN Overrides(j)) =>
                  /\ "ref" \in DOMAIN ctx_data
                  /\ ctx_data["ref"] = own["ref"]
                  /\ WasSaved => disk[j]["ref"] = own["ref"]
            /\ ("ref" \notin DOMAIN own /\ "ref" \notin DOMAIN Overrides(j)) =>
                  "ref" \notin DOMAIN ctx_data

\* an importer set 'ref', and the saved document still has its own 'ref'
C2_Witness ==
    /\ WasSaved
    /\ "ref" \in DOMAIN imported
    /\ "ref" \in DOMAIN orig[MergedDoc].fields
    /\ "ref" \notin DOMAIN Overrides(MergedDoc)
    /\ disk[MergedDoc]["ref"] = orig[MergedDoc].fields["ref"]

\* C3 (as claimed): when cli has ended, every document that has a folder
\* and comes after a document whose update failed was still updated.
C3_BatchContinues ==
    pc \in {"done", "raised"} =>
        \A i \in DOMAIN orig :
            (~RunRaises(orig[i]) /\ \E j \in 1..(i - 1) : RunRaises(orig[j]))
                => idx > i

\* an importer probe that counts as a contribution
Succeeded(o) == o.kind \in {"fetch_data_ok", "fetch_ok"} /\ o.data # EmptyDict

\* an importer probe that failed (raised, or is unimplemented)
Failed(o) == o.kind \in {"match_notimpl", "match_exc", "fetch_data_exc",
                         "fetch_notimpl", "fetch_exc"}

AutoMode == from_importer = <<>> /\ auto

\* C4: in auto mode a failing importer is left out of the matching
\* importers and nothing else: the matching importers are exactly the probed
\* importers that succeeded, in order; no importer failure leaves cli; every
\* importer is probed before the data is collected; and the saved document
\* holds the contributions of the importers that succeeded.
C4_ImporterFailureIsolated ==
    /\ pc = "raised" => RunRaises(documents[idx])
    /\ (AutoMode /\ pc \in {"probe", "collect"}) =>
        /\ \A i \in 1..Len(probed) :
             Succeeded(probed[i]) <=>
                \E m \in 1..Len(matching_importers) :
                    matching_importers[m] = [name |-> i, data |-> probed[i].data]
        /\ \A m \in 1..Len(matching_importers) :
             /\ matching_importers[m].name \in 1..Len(probed)
             /\ \A n \in 1..(m - 1) :
                  matching_importers[n].name < matching_importers[m].name
        /\ \A i \in 1..Len(probed) :
             Failed(probed[i]) =>
                \A m \in 1..Len(matching_importers) : matching_importers[m].name # i
        /\ pc = "collect" => Len(probed) = NumImporters
    /\ (AutoMode /\ WasSaved) =>
        \A i \in 1..Len(probed) :
            Succeeded(probed[i]) =>
                \A k \in (DOMAIN probed[i].data) \ {"ref"} :
                    (\A n \in (i + 1)..Len(probed) :
                        Succeeded(probed[n]) => k \notin DOMAIN probed[n].data)
                    => /\ k \in DOMAIN disk[MergedDoc]
                       /\ disk[MergedDoc][k] = probed[i].data[k]

\* the fetch fallback of the first importer raised, the second importer
\* succeeded, and its contribution was saved
C4_Witness ==
    /\ AutoMode /\ WasSaved
    /\ Len(probed) = NumImporters
    /\ probed[1].kind = "fetch_exc"
    /\ Succeeded(probed[NumImporters])
    /\ "tags" \in DOMAIN probed[NumImporters].data
    /\ disk[MergedDoc]["tags"] = "c"


-----------------------------------------------------------------------------
(* Python values of the key-conversion engine *)

PyNone == [t |-> "none", v |-> 0]
PyStr(chars) == [t |-> "str", v |-> chars]
PyInt(n) == [t |-> "int", v |-> n]
PyList(items) == [t |-> "list", v |-> items]

\* bool(value)
Truthy(x) ==
    CASE x.t = "none" -> FALSE
      [] x.t = "str"  -> x.v # <<>>
      [] x.t = "int"  -> x.v # 0
      [] x.t = "list" -> x.v # <<>>

Whitespace == {" "}

\* str.strip()
RECURSIVE LStrip(_)
LStrip(chars) ==
    IF chars # <<>> /\ Head(chars) \in Whitespace THEN LStrip(Tail(chars))
    ELSE chars

RECURSIVE RStrip(_)
RStrip(chars) ==
    IF chars # <<>> /\ chars[Len(chars)] \in Whitespace
    THEN RStrip(SubSeq(chars, 1, Len(chars) - 1))
    ELSE chars

Strip(chars) == RStrip(LStrip(chars))

DigitChars == <<"0", "1", "2", "3", "4", "5", "6", "7", "8", "9">>

\* str(n) of an int
RECURSIVE NatToStr(_)
NatToStr(n) ==
    IF n < 10 THEN << DigitChars[n + 1] >>
    ELSE NatToStr(n \div 10) \o << DigitChars[(n % 10) + 1] >>

IntToStr(n) == IF n < 0 THEN <<"-">> \o NatToStr(0 - n) ELSE NatToStr(n)

\* "{}".format(value) of a str, an int or None
FormatValue(x) ==
    CASE x.t = "str"  -> x.v
      [] x.t = "int"  -> IntToStr(x.v)
      [] x.t = "none" -> <<"N", "o", "n", "e">>

-----------------------------------------------------------------------------
(* Inputs of the key-conversion engine *)

MaxRules == 2           \* rules in a conversion list, over all its pairs
MaxAuthors == 2         \* authors in an author_list

NoKey == "None"         \* KeyConversion without "key"
NoAction == "None"      \* KeyConversion without "action"

\* the outcome of a call that raised, as a value and in place of a dict
Exception == [t |-> "exception", v |-> 0]
Raised == [k \in {"<exception>"} |-> Exception]

AuthorSet == { [given |-> <<"S">>, family |-> <<"A">>] }

\* what the foreign data can hold under each of its keys
ConvValues == [k \in {"id", "author", "author_list"} |->
    CASE k = "id" ->
            { PyStr(<<" ">>), PyStr(<<" ", "x", " ">>), PyInt(0), PyInt(7) }
      [] k = "author" -> { PyStr(<<>>), PyStr(<<"b">>) }
      [] k = "author_list" ->
            { PyList(l) : l \in SeqsUpTo(AuthorSet, MaxAuthors) }]

ConvDataSet == DictsOver({"id", "author", "author_list"}, ConvValues)

\* the actions: None, one that always raises, and the docstring's
\* lambda x: "https://doi.org/{}".format(x)
ConvActions == {NoAction, "raise", "doi_url"}

\* the rules a pair for foreign key fk can hold; an 'author_list' is only
\* renamed or dropped, never formatted
RulesFor(fk) ==
    IF fk = "author_list"
    THEN { [key |-> k, action |-> a] :
             k \in {NoKey, "author"}, a \in {NoAction, "raise"} }
    ELSE { [key |-> k, action |-> a] :
             k \in {NoKey, "doi", "author"}, a \in ConvActions }

\* a conversion list written flat: one entry per rule, first marks a new pair
FlatRules ==
    { [fk |-> f, rule |-> r, first |-> b] :
        f \in {"id", "author_list"},
        r \in RulesFor("id"), b \in BOOLEAN }

FlatOk(flat) ==
    \A i \in 1..Len(flat) :
        /\ flat[i].rule \in RulesFor(flat[i].fk)
        /\ i = 1 => flat[i].first
        /\ (i > 1 /\ ~flat[i].first) => flat[i].fk = flat[i - 1].fk

RECURSIVE GroupPairs(_)
GroupPairs(flat) ==
    IF flat = <<>> THEN <<>>
    ELSE LET n == Len(flat)
             g == GroupPairs(SubSeq(flat, 1, n - 1))
         IN  IF flat[n].first
             THEN Append(g, [foreign_key |-> flat[n].fk, list |-> <<flat[n].rule>>])
             ELSE [g EXCEPT ![Len(g)].list = Append(@, flat[n].rule)]

\* every conversion list of at most MaxRules rules
ConversionsSet ==
    { GroupPairs(flat) : flat \in { f \in SeqsUpTo(FlatRules, MaxRules) : FlatOk(f) } }

-----------------------------------------------------------------------------
(* keyconversion_to_data (document.py:59-143) *)

\* document.py:164-165: the configured separator and per-author format,
\* " and " and "{au[family]}, {au[given]}"
AuthorSeparator == <<" ", "a", "n", "d", " ">>
AuthorFormat(au) == au.family \o <<",", " ">> \o au.given

\* document.py:172-174: separator.join(fmt.format(au=author) for author in ...)
RECURSIVE JoinAuthors(_)
JoinAuthors(authors) ==
    IF authors = <<>> THEN <<>>
    ELSE IF Len(authors) = 1 THEN AuthorFormat(authors[1])
    ELSE AuthorFormat(authors[1]) \o AuthorSeparator \o JoinAuthors(Tail(authors))

\* author_list_to_author (document.py:146-174)
AuthorListToAuthor(data) ==
    IF "author_list" \notin DOMAIN data THEN PyStr(<<>>)
    ELSE PyStr(JoinAuthors(data["author_list"].v))

\* calling the action (document.py:120)
CallAction(action, value) ==
    IF action = "raise" THEN Exception
    ELSE PyStr(<<"https://doi.org/">> \o FormatValue(value))

\* mutant: the exception of the action is not caught
NewValueUncaught(action, papis_value) ==
    IF action # NoAction THEN CallAction(action, papis_value) ELSE papis_value

\* document.py:117-126: the value of a rule, None when the action raises
NewValue(action, papis_value) ==
    IF action # NoAction
    THEN LET r == CallAction(action, papis_value)
         IN  IF r = Exception THEN PyNone ELSE r
    ELSE papis_value

\* document.py:128-129
StripIfStr(x) == IF x.t = "str" THEN PyStr(Strip(x.v)) ELSE x

\* mutant: the value is written whatever it is
WriteValueAlways(new_data, papis_key, new_value) ==
    DictUpdate(new_data, [k \in {papis_key} |-> new_value])

\* document.py:131-132
WriteValue(new_data, papis_key, new_value) ==
    IF Truthy(new_value)
    THEN DictUpdate(new_data, [k \in {papis_key} |-> new_value])
    ELSE new_data

\* document.py:114
PapisKey(conv, foreign_key) == IF conv.key # NoKey THEN conv.key ELSE foreign_key

\* document.py:114-132: one rule of a pair
ConvertRule(new_data, foreign_key, conv, data) ==
    IF new_data = Raised THEN Raised
    ELSE LET new_value == NewValue(conv.action, data[foreign_key])
         IN  IF new_value = Exception THEN Raised
             ELSE WriteValue(new_data, PapisKey(conv, foreign_key),
                             StripIfStr(new_value))

\* document.py:113: the rules of a pair, in order
RECURSIVE ConvertRules(_, _, _, _)
ConvertRules(new_data, foreign_key, list, data) ==
    IF list = <<>> THEN new_data
    ELSE ConvertRules(ConvertRule(new_data, foreign_key, Head(list), data),
                      foreign_key, Tail(list), data)

\* document.py:107-132: the pairs, in order
RECURSIVE ConvertPairs(_, _, _)
ConvertPairs(new_data, pairs, data) ==
    IF pairs = <<>> THEN new_data
    ELSE LET key_pair == Head(pairs)
             nd == IF key_pair.foreign_key \notin DOMAIN data THEN new_data
                   ELSE ConvertRules(new_data, key_pair.foreign_key,
                                     key_pair.list, data)
         IN  ConvertPairs(nd, Tail(pairs), data)

\* document.py:134-138
KeepUnknownKeys(new_data, convs, data) ==
    LET known == { convs[i].foreign_key : i \in DOMAIN convs }
    IN  DictUpdate(new_data, [k \in (DOMAIN data) \ known |-> data[k]])

\* mutant: an 'author' that is already there is kept
DeriveAuthorIfMissing(new_data) ==
    IF "author_list" \in DOMAIN new_data /\ "author" \notin DOMAIN new_data
    THEN DictUpdate(new_data, [k \in {"author"} |-> AuthorListToAuthor(new_data)])
    ELSE new_data

\* document.py:140-141
DeriveAuthor(new_data) ==
    IF "author_list" \in DOMAIN new_data
    THEN DictUpdate(new_data, [k \in {"author"} |-> AuthorListToAuthor(new_data)])
    ELSE new_data

KeyconversionToData(convs, data, keep) ==
    LET converted == ConvertPairs(EmptyDict, convs, data)
    IN  IF converted = Raised THEN Raised
        ELSE DeriveAuthor(IF keep THEN KeepUnknownKeys(converted, convs, data)
                          ELSE converted)

\* the update command is not running
UpdateIdle ==
    /\ documents = <<>>
    /\ set_tuples = <<>>
    /\ from_importer = <<>>
    /\ auto = FALSE
    /\ pc = "idle"
    /\ idx = 0
    /\ probe = 0
    /\ matching_importers = <<>>
    /\ ctx_data = EmptyDict
    /\ imported = EmptyDict
    /\ disk = <<>>
    /\ orig = <<>>
    /\ probed = <<>>

ConvInit ==
    /\ conversions \in ConversionsSet
    /\ conv_data \in ConvDataSet
    /\ keep_unknown_keys \in BOOLEAN
    /\ conv_pc = "call"
    /\ conv_result = EmptyDict
    /\ UpdateIdle
    /\ SortIdle
    /\ DocIdle
    /\ DumpIdle

\* a call of keyconversion_to_data
Convert ==
    /\ conv_pc = "call"
    /\ conv_result' = KeyconversionToData(conversions, conv_data, keep_unknown_keys)
    /\ conv_pc' = "done"
    /\ UNCHANGED <<conversions, conv_data, keep_unknown_keys>>
    /\ UNCHANGED <<update_vars, sort_vars, doc_vars, dump_vars>>

ConvNext == Convert

ConvSpec == ConvInit /\ [][ConvNext]_vars


-----------------------------------------------------------------------------
(* Claims about keyconversion_to_data *)

ConvDone == conv_pc = "done"

\* the rules of the conversion list, as <<pair, rule>> positions
RulePositions ==
    UNION { { <<i, j>> : j \in DOMAIN conversions[i].list } : i \in DOMAIN conversions }

RuleAt(p) == conversions[p[1]].list[p[2]]
ForeignKeyAt(p) == conversions[p[1]].foreign_key
TargetAt(p) == PapisKey(RuleAt(p), ForeignKeyAt(p))

\* the rule is reached: its pair's foreign key is in the data
Applied(p) == ForeignKeyAt(p) \in DOMAIN conv_data

Throws(p) == RuleAt(p).action = "raise"

\* the transformed and trimmed value of an applied rule (None if it throws)
RuleValue(p) ==
    IF Throws(p) THEN PyNone
    ELSE IF RuleAt(p).action = NoAction THEN StripIfStr(conv_data[ForeignKeyAt(p)])
    ELSE StripIfStr(CallAction(RuleAt(p).action, conv_data[ForeignKeyAt(p)]))

\* the rule has something to write
Yields(p) == Applied(p) /\ Truthy(RuleValue(p))

Later(p, q) == q[1] > p[1] \/ (q[1] = p[1] /\ q[2] > p[2])

\* the last rule to write its target key
LastYield(p) ==
    /\ Yields(p)
    /\ \A q \in RulePositions :
         (Yields(q) /\ TargetAt(q) = TargetAt(p)) => ~Later(p, q)

\* key k of the data is copied through as an unknown key
PassedThrough(k) ==
    /\ keep_unknown_keys
    /\ k \in DOMAIN conv_data
    /\ \A i \in DOMAIN conversions : conversions[i].foreign_key # k

\* key k of the result is the author string derived from author_list
AuthorDerived(k) == k = "author" /\ "author_list" \in DOMAIN conv_result

\* some rule other than p writes key k
OtherRuleWrites(p, k) ==
    \E q \in RulePositions : q # p /\ Yields(q) /\ TargetAt(q) = k

\* every rule that has something to write is applied: the result holds the
\* value of the last such rule of each target key
RulesApplied ==
    \A p \in RulePositions :
        (LastYield(p) /\ ~PassedThrough(TargetAt(p)) /\ ~AuthorDerived(TargetAt(p)))
            => /\ TargetAt(p) \in DOMAIN conv_result
               /\ conv_result[TargetAt(p)] = RuleValue(p)

\* C5 (as claimed): keyconversion_to_data never raises, and the target key
\* of every applied rule whose transform throws is absent from the result.
C5_ThrowingRuleKeyAbsent ==
    ConvDone =>
        /\ conv_result # Raised
        /\ \A p \in RulePositions :
             (Applied(p) /\ Throws(p)) => TargetAt(p) \notin DOMAIN conv_result

\* C5 (amended): keyconversion_to_data never raises; a rule whose transform
\* throws writes nothing, so its target key is in the result only if another
\* rule, the unknown-key pass-through or the author_list post-processing put
\* it there; and every other rule is still applied.
C5_ThrowingRuleWritesNothing ==
    ConvDone =>
        /\ conv_result # Raised
        /\ \A p \in RulePositions :
             (Applied(p) /\ Throws(p) /\ TargetAt(p) \in DOMAIN conv_result)
                => \/ OtherRuleWrites(p, TargetAt(p))
                   \/ PassedThrough(TargetAt(p))
                   \/ AuthorDerived(TargetAt(p))
        /\ RulesApplied

\* a rule threw, its key is absent, and a later rule wrote its value
C5_Witness ==
    /\ ConvDone
    /\ \E p, q \in RulePositions :
        /\ Applied(p) /\ Throws(p)
        /\ TargetAt(p) \notin DOMAIN conv_result
        /\ Later(p, q) /\ Yields(q)
        /\ TargetAt(q) \in DOMAIN conv_result
        /\ conv_result[TargetAt(q)] = RuleValue(q)

\* C6: a rule whose transformed, trimmed value is falsy writes nothing: a
\* falsy value in the result is never a rule's output (it was passed through
\* as an unknown key, or is the derived author), the target key of a falsy
\* rule is in the result only if something else put it there, and a falsy
\* rule does not disturb what the other rules wrote.
C6_FalsyNeverWritten ==
    ConvDone =>
        /\ \A k \in DOMAIN conv_result :
             ~Truthy(conv_result[k]) => (PassedThrough(k) \/ AuthorDerived(k))
        /\ \A p \in RulePositions :
             (Applied(p) /\ ~Truthy(RuleValue(p)) /\ TargetAt(p) \in DOMAIN conv_result)
                => \/ OtherRuleWrites(p, TargetAt(p))
                   \/ PassedThrough(TargetAt(p))
                   \/ AuthorDerived(TargetAt(p))
        /\ \A p \in RulePositions :
             (LastYield(p) /\ ~PassedThrough(TargetAt(p)) /\ ~AuthorDerived(TargetAt(p)))
                => TargetAt(p) \in DOMAIN conv_result /\ Truthy(conv_result[TargetAt(p)])

\* a rule without action met a blank string, and its key is absent
C6_Witness ==
    /\ ConvDone
    /\ \E p \in RulePositions :
        /\ Applied(p)
        /\ RuleAt(p).action = NoAction
        /\ conv_data[ForeignKeyAt(p)] = PyStr(<<" ">>)
        /\ TargetAt(p) \notin DOMAIN conv_result

\* C7 (as claimed): whenever the input data has an 'author_list', the result
\* has an 'author' equal to the joined author list.
C7_AuthorFromInputList ==
    (ConvDone /\ "author_list" \in DOMAIN conv_data) =>
        /\ "author" \in DOMAIN conv_result
        /\ conv_result["author"] = PyStr(JoinAuthors(conv_data["author_list"].v))

\* C7 (amended): whenever the converted mapping holds an 'author_list' (a
\* rule wrote it, or it was passed through as an unknown key), the result
\* has an 'author' equal to that list joined through the per-author format
\* and the separator, whatever 'author' the rules or the pass-through gave.
C7_AuthorFromConvertedList ==
    ConvDone =>
        /\ "author_list" \in DOMAIN conv_result <=>
              \/ \E p \in RulePositions : Yields(p) /\ TargetAt(p) = "author_list"
              \/ PassedThrough("author_list")
        /\ "author_list" \in DOMAIN conv_result =>
              /\ "author" \in DOMAIN conv_result
              /\ conv_result["author"] =
                    PyStr(JoinAuthors(conv_result["author_list"].v))

\* a rule wrote an 'author', and the result's 'author' is the joined list
C7_Witness ==
    /\ ConvDone
    /\ "author_list" \in DOMAIN conv_result
    /\ Len(conv_result["author_list"].v) = 2
    /\ \E p \in RulePositions : Yields(p) /\ TargetAt(p) = "author"
    /\ conv_result["author"] =
          PyStr(<<"A", ",", " ", "S", " ", "a", "n", "d", " ", "A", ",", " ", "S">>)


-----------------------------------------------------------------------------
(* Parsing and comparing Python values, as sort uses them *)

IsDigit(c) == \E i \in 1..10 : DigitChars[i] = c

DigitValue(c) == (CHOOSE i \in 1..10 : DigitChars[i] = c) - 1

\* the number of digits chars starts with
RECURSIVE DigitRun(_)
DigitRun(chars) ==
    IF chars # <<>> /\ IsDigit(Head(chars)) THEN 1 + DigitRun(Tail(chars)) ELSE 0

\* the number a non-empty sequence of digits writes
RECURSIVE StrToNat(_)
StrToNat(chars) ==
    IF chars = <<>> THEN 0
    ELSE 10 * StrToNat(SubSeq(chars, 1, Len(chars) - 1))
         + DigitValue(chars[Len(chars)])

\* int(chars): surrounding whitespace and a sign are accepted; ok is FALSE
\* where Python raises ValueError
ParseInt(chars) ==
    LET body   == Strip(chars)
        signed == body # <<>> /\ Head(body) \in {"+", "-"}
        digits == IF signed THEN Tail(body) ELSE body
    IN  IF digits # <<>> /\ DigitRun(digits) = Len(digits)
        THEN [ok |-> TRUE,
              value |-> IF signed /\ Head(body) = "-"
                        THEN 0 - StrToNat(digits) ELSE StrToNat(digits)]
        ELSE [ok |-> FALSE, value |-> 0]

\* strings.py:49, "%Y-%m-%d-%H:%M:%S": each field's digit counts and the
\* character that follows it ("" at the end of the string)
time_format ==
    << [lens |-> {4}, sep |-> "-"], [lens |-> {1, 2}, sep |-> "-"],
       [lens |-> {1, 2}, sep |-> "-"], [lens |-> {1, 2}, sep |-> ":"],
       [lens |-> {1, 2}, sep |-> ":"], [lens |-> {1, 2}, sep |-> ""] >>

\* match chars against the fields of a format: every field is a run of
\* digits of an allowed length followed by its separator, and nothing remains
RECURSIVE ParseFields(_, _)
ParseFields(chars, fmt) ==
    IF fmt = <<>> THEN [ok |-> chars = <<>>, vals |-> <<>>]
    ELSE LET f    == Head(fmt)
             n    == DigitRun(chars)
             rest == SubSeq(chars, n + 1, Len(chars))
         IN  IF n \notin f.lens THEN [ok |-> FALSE, vals |-> <<>>]
             ELSE IF f.sep # "" /\ (rest = <<>> \/ Head(rest) # f.sep)
             THEN [ok |-> FALSE, vals |-> <<>>]
             ELSE LET r == ParseFields(IF f.sep = "" THEN rest ELSE Tail(rest),
                                       Tail(fmt))
                  IN  [ok |-> r.ok,
                       vals |-> <<StrToNat(SubSeq(chars, 1, n))>> \o r.vals]

IsLeapYear(y) == y % 4 = 0 /\ (y % 100 # 0 \/ y % 400 = 0)

DaysInMonth(y, m) ==
    IF m = 2 THEN (IF IsLeapYear(y) THEN 29 ELSE 28)
    ELSE IF m \in {4, 6, 9, 11} THEN 30 ELSE 31

\* datetime.strptime(chars, time_format): ok is FALSE where it raises
\* ValueError (no match, or not a date and time of the calendar)
Strptime(chars) ==
    LET r == ParseFields(chars, time_format)
    IN  IF /\ r.ok
           /\ r.vals[1] >= 1
           /\ r.vals[2] \in 1..12
           /\ r.vals[3] \in 1..DaysInMonth(r.vals[1], r.vals[2])
           /\ r.vals[4] \in 0..23
           /\ r.vals[5] \in 0..59
           /\ r.vals[6] \in 0..59
        THEN [ok |-> TRUE, date |-> r.vals]
        ELSE [ok |-> FALSE, date |-> <<>>]

\* ord(c) of the characters the model uses
CharCode(c) ==
    CASE c = " " -> 32
      [] c = "+" -> 43
      [] c = "-" -> 45
      [] IsDigit(c) -> 48 + DigitValue(c)
      [] c = ":" -> 58
      [] c = "a" -> 97
      [] c = "b" -> 98

\* a < b for sequences of integers (tuples of int, datetime fields)
RECURSIVE IntSeqLess(_, _)
IntSeqLess(a, b) ==
    IF b = <<>> THEN FALSE
    ELSE IF a = <<>> THEN TRUE
    ELSE IF Head(a) # Head(b) THEN Head(a) < Head(b)
    ELSE IntSeqLess(Tail(a), Tail(b))

\* a < b for str
StrLess(a, b) ==
    IntSeqLess([i \in DOMAIN a |-> CharCode(a[i])],
               [i \in DOMAIN b |-> CharCode(b[i])])


-----------------------------------------------------------------------------
(* sort (document.py:467-510) *)

MaxSortDocs == 3        \* documents handed to sort

\* _SortPriority (document.py:24-28)
PriorityDate == 0
PriorityInt == 1
PriorityOther == 2
PriorityMissing == 3

RECURSIVE ZeroPad(_, _)
ZeroPad(chars, width) ==
    IF Len(chars) >= width THEN chars ELSE ZeroPad(<<"0">> \o chars, width)

\* a time written with time_format, as 'time-added' is
TimeStamp(y, mo, d, h, mi, sec) ==
    ZeroPad(NatToStr(y), 4) \o <<"-">> \o ZeroPad(NatToStr(mo), 2) \o <<"-">>
    \o ZeroPad(NatToStr(d), 2) \o <<"-">> \o ZeroPad(NatToStr(h), 2) \o <<":">>
    \o ZeroPad(NatToStr(mi), 2) \o <<":">> \o ZeroPad(NatToStr(sec), 2)

\* values of 'time-added': two times, a month 13, a 29 February of a common
\* year, a bare year as a string, an int
TimeAddedValues ==
    { PyStr(TimeStamp(2020, 1, 2, 3, 4, 5)),
      PyStr(TimeStamp(2019, 12, 31, 23, 59, 59)),
      PyStr(TimeStamp(2020, 13, 1, 0, 0, 0)),
      PyStr(TimeStamp(2021, 2, 29, 0, 0, 0)),
      PyStr(<<"2", "0", "2", "0">>),
      PyInt(7) }

\* values of 'year': ints, strings int() accepts, strings it rejects
YearValues ==
    { PyInt(5), PyInt(12), PyStr(<<"1", "2">>), PyStr(<<" ", "5">>),
      PyStr(<<"-", "3">>), PyStr(<<"a">>) }

\* the fields of a document handed to sort
SortFieldsSet ==
    {EmptyDict}
    \cup { [k \in {"time-added"} |-> v] : v \in TimeAddedValues }
    \cup { [k \in {"year"} |-> v] : v \in YearValues }

SortKeys == {"time-added", "year", "title"}

\* document.py:482-483: datetime.fromtimestamp(0), 0 and ""
DefaultDate == <<1970, 1, 1, 0, 0, 0>>

\* mutant: the priority is not negated when reverse is set
DocumentSortKeyNotNegated(doc, key, rev) ==
    IF key \notin DOMAIN doc.fields
    THEN <<PriorityMissing, DefaultDate, 0, <<>> >>
    ELSE LET str_value == FormatValue(doc.fields[key])
         IN  IF key = "time-added"
             THEN LET t == Strptime(str_value)
                  IN  IF t.ok THEN <<PriorityDate, t.date, 0, str_value>>
                      ELSE <<PriorityMissing, DefaultDate, 0, str_value>>
             ELSE LET n == ParseInt(str_value)
                  IN  IF n.ok THEN <<PriorityInt, DefaultDate, n.value, str_value>>
                      ELSE <<PriorityOther, DefaultDate, 0, str_value>>

\* mutant: a 'time-added' that does not parse goes on to the int branch
DocumentSortKeyFallsThrough(doc, key, rev) ==
    LET k == IF key \notin DOMAIN doc.fields
             THEN <<PriorityMissing, DefaultDate, 0, <<>> >>
             ELSE LET str_value == FormatValue(doc.fields[key])
                      t == Strptime(str_value)
                      n == ParseInt(str_value)
                  IN  IF key = "time-added" /\ t.ok
                      THEN <<PriorityDate, t.date, 0, str_value>>
                      ELSE IF n.ok
                      THEN <<PriorityInt, DefaultDate, n.value, str_value>>
                      ELSE <<PriorityOther, DefaultDate, 0, str_value>>
    IN  <<IF rev THEN 0 - k[1] ELSE k[1], k[2], k[3], k[4]>>

\* document_sort_key (document.py:487-507)
DocumentSortKey(doc, key, rev) ==
    LET k == IF key \notin DOMAIN doc.fields
             THEN <<PriorityMissing, DefaultDate, 0, <<>> >>
             ELSE LET str_value == FormatValue(doc.fields[key])
                  IN  IF key = "time-added"
                      THEN LET t == Strptime(str_value)
                           IN  IF t.ok
                               THEN <<PriorityDate, t.date, 0, str_value>>
                               ELSE <<PriorityMissing, DefaultDate, 0, str_value>>
                      ELSE LET n == ParseInt(str_value)
                           IN  IF n.ok
                               THEN <<PriorityInt, DefaultDate, n.value, str_value>>
                               ELSE <<PriorityOther, DefaultDate, 0, str_value>>
    IN  <<IF rev THEN 0 - k[1] ELSE k[1], k[2], k[3], k[4]>>

\* a < b for the tuples document_sort_key returns
SortKeyLess(a, b) ==
    IF a[1] # b[1] THEN a[1] < b[1]
    ELSE IF a[2] # b[2] THEN IntSeqLess(a[2], b[2])
    ELSE IF a[3] # b[3] THEN a[3] < b[3]
    ELSE StrLess(a[4], b[4])

\* x put into the sorted sequence seq, after every element not greater
RECURSIVE InsertSorted(_, _, _, _)
InsertSorted(seq, x, key, rev) ==
    IF seq = <<>> THEN <<x>>
    ELSE IF SortKeyLess(DocumentSortKey(x, key, rev),
                        DocumentSortKey(Head(seq), key, rev))
    THEN <<x>> \o seq
    ELSE <<Head(seq)>> \o InsertSorted(Tail(seq), x, key, rev)

\* a stable ascending sort
RECURSIVE StableSort(_, _, _)
StableSort(seq, key, rev) ==
    IF seq = <<>> THEN <<>>
    ELSE InsertSorted(StableSort(SubSeq(seq, 1, Len(seq) - 1), key, rev),
                      seq[Len(seq)], key, rev)

Reversed(seq) == [i \in DOMAIN seq |-> seq[Len(seq) + 1 - i]]

\* mutant: the ascending result is reversed
SortedThenReversed(seq, key, rev) ==
    IF rev THEN Reversed(StableSort(seq, key, rev)) ELSE StableSort(seq, key, rev)

\* sorted(docs, key=document_sort_key, reverse=reverse) (document.py:510):
\* descending, and stable in both directions
Sorted(seq, key, rev) ==
    IF rev THEN Reversed(StableSort(Reversed(seq), key, rev))
    ELSE StableSort(seq, key, rev)

SortInit ==
    /\ docs \in { [i \in DOMAIN f |-> [id |-> i, fields |-> f[i]]] :
                    f \in SeqsUpTo(SortFieldsSet, MaxSortDocs) }
    /\ sort_key \in SortKeys
    /\ reverse \in BOOLEAN
    /\ sort_pc = "call"
    /\ sorted_docs = <<>>
    /\ UpdateIdle
    /\ ConvIdle
    /\ DocIdle
    /\ DumpIdle

\* a call of sort
Sort ==
    /\ sort_pc = "call"
    /\ sorted_docs' = Sorted(docs, sort_key, reverse)
    /\ sort_pc' = "done"
    /\ UNCHANGED <<docs, sort_key, reverse>>
    /\ UNCHANGED <<update_vars, conv_vars, doc_vars, dump_vars>>

SortNext == Sort

SortSpec == SortInit /\ [][SortNext]_vars

-----------------------------------------------------------------------------
(* Claims about sort *)

SortDone == sort_pc = "done"

\* the priority category of a document under the sort key
Category(doc) == DocumentSortKey(doc, sort_key, FALSE)[1]

\* the date, integer and string value of a document under the sort key
ValueOf(doc) ==
    LET k == DocumentSortKey(doc, sort_key, FALSE) IN <<k[2], k[3], k[4]>>

ValueLess(a, b) ==
    SortKeyLess(<<0>> \o ValueOf(a), <<0>> \o ValueOf(b))

IsPermutation(a, b) ==
    /\ Len(a) = Len(b)
    /\ \A i \in DOMAIN a : \E j \in DOMAIN b : a[i] = b[j]
    /\ \A j \in DOMAIN b : \E i \in DOMAIN a : a[i] = b[j]

\* where doc is in seq
IndexIn(seq, doc) == CHOOSE i \in DOMAIN seq : seq[i] = doc

\* C8 (as claimed): with reverse=True the categories come in the order
\* Missing, Other, Int, Date, and two documents of one category are in the
\* same relative order as with reverse=False.
C8_ReverseFlipsCategories ==
    (SortDone /\ reverse) =>
        LET forward == Sorted(docs, sort_key, FALSE) IN
        \A i, j \in DOMAIN sorted_docs :
            i < j =>
                /\ Category(sorted_docs[i]) >= Category(sorted_docs[j])
                /\ Category(sorted_docs[i]) = Category(sorted_docs[j]) =>
                     IndexIn(forward, sorted_docs[i]) < IndexIn(forward, sorted_docs[j])

\* C8 (amended): the result is a permutation of the input in which, with
\* either setting of reverse, the categories come in the order Date, Int,
\* Other, Missing; within a category the order is ascending by date,
\* integer and string value with reverse=False and descending with
\* reverse=True; documents with equal values keep their input order.
C8_ReverseFlipsWithinCategory ==
    SortDone =>
        /\ IsPermutation(sorted_docs, docs)
        /\ \A i, j \in DOMAIN sorted_docs :
            i < j =>
                LET a == sorted_docs[i]
                    b == sorted_docs[j]
                IN  /\ Category(a) <= Category(b)
                    /\ Category(a) = Category(b) =>
                         /\ reverse => ~ValueLess(a, b)
                         /\ ~reverse => ~ValueLess(b, a)
                         /\ ValueOf(a) = ValueOf(b) => a.id < b.id

\* with reverse=True an Int document precedes a Missing one, and two Int
\* documents are in descending order
C8_Witness ==
    /\ SortDone /\ reverse /\ sort_key = "year"
    /\ \E i, j, k \in DOMAIN sorted_docs :
        /\ i < j /\ j < k
        /\ Category(sorted_docs[i]) = PriorityInt
        /\ Category(sorted_docs[j]) = PriorityInt
        /\ ValueLess(sorted_docs[j], sorted_docs[i])
        /\ Category(sorted_docs[k]) = PriorityMissing

\* the 'time-added' of the document parses against time_format
ParsesTimeAdded(doc) ==
    /\ "time-added" \in DOMAIN doc.fields
    /\ Strptime(FormatValue(doc.fields["time-added"])).ok

\* C9: sort(docs, 'time-added') puts every document whose 'time-added'
\* parses before every document whose 'time-added' is missing or does not
\* parse, and ranks the latter Missing (never Int or Other).
C9_ValidTimesFirst ==
    (SortDone /\ sort_key = "time-added" /\ ~reverse) =>
        /\ IsPermutation(sorted_docs, docs)
        /\ \A i, j \in DOMAIN sorted_docs :
             (ParsesTimeAdded(sorted_docs[i]) /\ ~ParsesTimeAdded(sorted_docs[j]))
                => i < j
        /\ \A i \in DOMAIN docs :
             /\ ~ParsesTimeAdded(docs[i]) =>
                  DocumentSortKey(docs[i], sort_key, reverse)[1] = PriorityMissing
             /\ ParsesTimeAdded(docs[i]) =>
                  DocumentSortKey(docs[i], sort_key, reverse)[1] = PriorityDate

\* the input had a bare-year string and a missing value before a valid time,
\* and the valid time comes first
C9_Witness ==
    /\ SortDone /\ sort_key = "time-added" /\ ~reverse
    /\ Len(docs) = 3
    /\ docs[1].fields = [k \in {"time-added"} |-> PyStr(<<"2", "0", "2", "0">>)]
    /\ docs[2].fields = EmptyDict
    /\ ParsesTimeAdded(docs[3])
    /\ sorted_docs[1] = docs[3]

\* the sort key is in no document
KeyAbsentEverywhere == \A i \in DOMAIN docs : sort_key \notin DOMAIN docs[i].fields

\* C10: when the sort key is absent from every document, sort returns the
\* documents in their input order, with reverse=False and with reverse=True.
C10_AbsentKeyKeepsOrder ==
    (SortDone /\ KeyAbsentEverywhere) =>
        /\ sorted_docs = docs
        /\ IsPermutation(sorted_docs, docs)

\* three documents without the key were sorted with reverse=True
C10_Witness ==
    /\ SortDone /\ KeyAbsentEverywhere /\ reverse
    /\ Len(docs) = 3
    /\ docs[1].fields # docs[2].fields
    /\ sorted_docs = docs

-----------------------------------------------------------------------------
(* Paths and the filesystem.  A path is the sequence of its components;   *)
(* <<>> is the empty string.                                              *)

\* os.path.expanduser("~")
Home == <<"/", "home", "u">>

\* papis.config.getstring("info-name")
InfoName == "info.yaml"

\* os.path.expanduser(path)
ExpandUser(path) ==
    IF path # <<>> /\ Head(path) = "~" THEN Home \o Tail(path) ELSE path

\* os.path.join(path, name)
PathJoin(path, name) == path \o <<name>>

\* the directory a file path lies in
Parent(path) == SubSeq(path, 1, Len(path) - 1)

IsPrefix(a, b) == Len(a) <= Len(b) /\ SubSeq(b, 1, Len(a)) = a

\* the folders the model uses: user-relative ones, one of them expanded,
\* and one outside the home directory
TildeA == <<"~", "a">>
HomeA == Home \o <<"a">>
TildeC == <<"~", "c">>
LibB == <<"/", "lib", "b">>

SetFolderPaths == {TildeA, HomeA, LibB}
MovePaths == {TildeC}

NoError == "NoError"

\* papis.yaml.data_to_yaml's text for a mapping, and a text that does not
\* parse
DataToYaml(data) == [ok |-> TRUE, data |-> data]
CorruptYaml == [ok |-> FALSE, data |-> EmptyDict]

\* papis.yaml.yaml_to_data(path, raise_exception=True) on a text
YamlToData(text) ==
    IF text.ok THEN [raised |-> FALSE, data |-> text.data]
    ELSE [raised |-> TRUE, data |-> EmptyDict]

\* open(path, "w") and write: fails for the empty path and where the
\* directory does not exist
WriteFile(files, dirs, path, text) ==
    IF path = <<>> \/ Parent(path) \notin dirs
    THEN [err |-> "FileNotFoundError", files |-> files]
    ELSE [err |-> NoError, files |-> (path :> text) @@ files]

\* shutil.move(src, dst) of a directory onto a path that does not exist
MoveDir(files, src, dst) ==
    LET Rebase(p) == IF IsPrefix(src, p)
                     THEN dst \o SubSeq(p, Len(src) + 1, Len(p)) ELSE p
    IN  [q \in {Rebase(p) : p \in DOMAIN files} |->
            files[CHOOSE p \in DOMAIN files : Rebase(p) = q]]

\* the fields and the update data of the Document model
DocDataSet == {EmptyDict, [tags |-> "a"]}
DocUpdateSet == {[tags |-> "b"]}

-----------------------------------------------------------------------------
(* The Document entity (document.py:224-347) and move (document.py:428-464) *)

\* Document._folder of a Document without a folder (None); the code only
\* ever tests it with 'not folder'
NoFolderPath == <<>>

\* Document.subfolder: the folder without the home directory, its
\* components separated by spaces
Subfolder(folder) ==
    IF IsPrefix(Home, folder)
    THEN SubSeq(folder, Len(Home) + 1, Len(folder)) ELSE folder

\* Document.set_folder (document.py:267-282)
SetFolder(folder) ==
    [folder |-> ExpandUser(folder),
     info_file_path |-> PathJoin(folder, InfoName),
     subfolder |-> Subfolder(ExpandUser(folder))]

\* Document.save (document.py:328-331)
DocumentSave(info_file, fields, files, dirs) ==
    WriteFile(files, dirs, info_file, DataToYaml(fields))

\* mutant: a record that does not parse empties the document
DocumentLoadClearsOnError(info_file, fields, files) ==
    IF info_file = <<>> \/ info_file \notin DOMAIN files THEN fields
    ELSE LET r == YamlToData(files[info_file])
         IN  IF r.raised THEN EmptyDict ELSE DictUpdate(fields, r.data)

\* Document.load (document.py:333-347): the fields after the call
DocumentLoad(info_file, fields, files) ==
    IF info_file = <<>> \/ info_file \notin DOMAIN files THEN fields
    ELSE LET r == YamlToData(files[info_file])
         IN  IF r.raised THEN fields ELSE DictUpdate(fields, r.data)

\* what the history keeps of the Document and the files as they are: the
\* folder, the fields, the files, and whether a save has just succeeded
Snapshot ==
    [folder |-> d_folder, fields |-> d_fields, files |-> fs_files,
     saved |-> doc_op = "save" /\ doc_err = NoError]

\* from_data(data) in a filesystem where the home folder exists
DocInit ==
    /\ d_folder = NoFolderPath
    /\ d_info_file_path = <<>>
    /\ d_subfolder = <<>>
    /\ d_fields \in DocDataSet
    /\ \E others \in SUBSET {TildeA, LibB} : fs_dirs = {HomeA} \cup others
    /\ \E home_rec \in {<<>>, <<CorruptYaml>>, <<DataToYaml([tags |-> "a"])>>},
          lib_rec \in {<<DataToYaml([ref |-> "r"])>>} :
          fs_files =
             [q \in { PathJoin(HomeA, InfoName) : i \in DOMAIN home_rec }
                    \cup { PathJoin(LibB, InfoName) :
                              i \in {j \in DOMAIN lib_rec : LibB \in fs_dirs} }
              |-> IF q = PathJoin(HomeA, InfoName)
                  THEN home_rec[1] ELSE lib_rec[1]]
    /\ doc_op = "from_data"
    /\ doc_err = NoError
    /\ pre = [folder |-> d_folder, fields |-> d_fields, files |-> fs_files,
              saved |-> FALSE]
    /\ UpdateIdle
    /\ ConvIdle
    /\ SortIdle
    /\ DumpIdle

\* doc.set_folder(path)
DocSetFolder ==
    \E path \in SetFolderPaths :
        /\ d_folder' = SetFolder(path).folder
        /\ d_info_file_path' = SetFolder(path).info_file_path
        /\ d_subfolder' = SetFolder(path).subfolder
        /\ doc_op' = "set_folder"
        /\ doc_err' = NoError
        /\ pre' = Snapshot
        /\ UNCHANGED <<d_fields, fs_dirs, fs_files>>

\* doc.update(data)
DocUpdate ==
    \E data \in DocUpdateSet :
        /\ d_fields' = DictUpdate(d_fields, data)
        /\ doc_op' = "update"
        /\ doc_err' = NoError
        /\ pre' = Snapshot
        /\ UNCHANGED <<d_folder, d_info_file_path, d_subfolder, fs_dirs, fs_files>>

\* doc.save()
DocSave ==
    LET w == DocumentSave(d_info_file_path, d_fields, fs_files, fs_dirs)
    IN  /\ fs_files' = w.files
        /\ doc_op' = "save"
        /\ doc_err' = w.err
        /\ pre' = Snapshot
        /\ UNCHANGED <<d_folder, d_info_file_path, d_subfolder, d_fields, fs_dirs>>

\* doc.load()
DocLoad ==
    /\ d_fields' = DocumentLoad(d_info_file_path, d_fields, fs_files)
    /\ doc_op' = "load"
    /\ doc_err' = NoError
    /\ pre' = Snapshot
    /\ UNCHANGED <<d_folder, d_info_file_path, d_subfolder, fs_dirs, fs_files>>

\* doc = from_folder(path) (document.py:239-251, 358-363): a new Document
\* takes the place of the old one; path is one of the folders or the old
\* Document's own folder
FromFolder ==
    \E path \in SetFolderPaths \cup ({d_folder} \ {NoFolderPath}) :
        /\ d_folder' = SetFolder(path).folder
        /\ d_info_file_path' = SetFolder(path).info_file_path
        /\ d_subfolder' = SetFolder(path).subfolder
        /\ d_fields' = DocumentLoad(SetFolder(path).info_file_path, EmptyDict,
                                    fs_files)
        /\ doc_op' = "from_folder"
        /\ doc_err' = NoError
        /\ pre' = Snapshot
        /\ UNCHANGED <<fs_dirs, fs_files>>

\* move(doc, path) (document.py:446-464)
DocMove ==
    \E given \in MovePaths :
        LET path == ExpandUser(given)
        IN  /\ doc_op' = "move"
            /\ pre' = Snapshot
            /\ UNCHANGED d_fields
            /\ IF d_folder = NoFolderPath
               THEN /\ doc_err' = NoError
                    /\ UNCHANGED <<d_folder, d_info_file_path, d_subfolder,
                                   fs_dirs, fs_files>>
               ELSE IF path \in fs_dirs
               THEN /\ doc_err' = "Exception"
                    /\ UNCHANGED <<d_folder, d_info_file_path, d_subfolder,
                                   fs_dirs, fs_files>>
               ELSE IF d_folder \notin fs_dirs
               THEN /\ doc_err' = "FileNotFoundError"
                    /\ UNCHANGED <<d_folder, d_info_file_path, d_subfolder,
                                   fs_dirs, fs_files>>
               ELSE /\ fs_dirs' = (fs_dirs \ {d_folder}) \cup {path}
                    /\ fs_files' = MoveDir(fs_files, d_folder, path)
                    /\ d_folder' = SetFolder(path).folder
                    /\ d_info_file_path' = SetFolder(path).info_file_path
                    /\ d_subfolder' = SetFolder(path).subfolder
                    /\ doc_err' = NoError

\* papis.commands.update.run(doc, data) (update.py:59-86), git and
\* auto_doctor off
DocRun ==
    \E data \in DocUpdateSet :
        /\ doc_op' = "run"
        /\ pre' = Snapshot
        /\ UNCHANGED <<d_folder, d_info_file_path, d_subfolder, fs_dirs>>
        /\ IF d_folder = NoFolderPath \/ d_info_file_path = <<>>
           THEN /\ doc_err' = "DocumentFolderNotFound"
                /\ UNCHANGED <<d_fields, fs_files>>
           ELSE LET updated == DictUpdate(d_fields, data)
                    w == DocumentSave(d_info_file_path, updated, fs_files,
                                      fs_dirs)
                IN  /\ d_fields' = updated
                    /\ fs_files' = w.files
                    /\ doc_err' = w.err

DocNext ==
    /\ \/ DocSetFolder
       \/ DocUpdate
       \/ DocSave
       \/ DocLoad
       \/ FromFolder
       \/ DocMove
       \/ DocRun
    /\ UNCHANGED <<update_vars, conv_vars, sort_vars, dump_vars>>

DocSpec == DocInit /\ [][DocNext]_vars

-----------------------------------------------------------------------------
(* Claims about the Document entity *)

HasFolder == d_folder # NoFolderPath

\* the record file of the Document's folder
RecordPath == PathJoin(d_folder, InfoName)

\* C11 (as claimed): after any sequence of set_folder and move, the record
\* path of a Document with a folder is its (user-expanded) folder joined
\* with the record file name.  Violated: set_folder joins the path as it was
\* given, not the expanded folder it stores.
C11_RecordPathFollowsFolder ==
    HasFolder => d_info_file_path = RecordPath

\* C12 (as claimed): save() on a Document without a folder, and update's
\* run on such a Document, fail with the 'no folder attached' error
\* (DocumentFolderNotFound), write no file and leave the fields as they
\* were.  Violated: save has no such test; it fails inside the write of the
\* empty path.
C12_NoFolderNoSave ==
    (doc_op \in {"save", "run"} /\ pre.folder = NoFolderPath)
        => /\ doc_err = "DocumentFolderNotFound"
           /\ fs_files = pre.files
           /\ d_fields = pre.fields

\* the load that the last operation made failed or had nothing to read
LoadFailed ==
    \/ d_info_file_path = <<>>
    \/ d_info_file_path \notin DOMAIN fs_files
    \/ ~fs_files[d_info_file_path].ok

\* C13: load never raises, and where there is nothing to read or the record
\* does not parse the fields are what they were before the call (empty for
\* a Document just constructed from a folder).
C13_LoadFailureKeepsFields ==
    /\ doc_op = "load" =>
          /\ doc_err = NoError
          /\ LoadFailed => d_fields = pre.fields
    /\ doc_op = "from_folder" =>
          /\ doc_err = NoError
          /\ LoadFailed => d_fields = EmptyDict

\* load() ran on a Document with fields whose record file does not parse
C13_Witness ==
    /\ doc_op = "load"
    /\ d_info_file_path \in DOMAIN fs_files
    /\ ~fs_files[d_info_file_path].ok
    /\ pre.fields # EmptyDict
    /\ d_fields = pre.fields

\* C14 (as claimed): a save writes the whole mapping; loading after a save,
\* with load() or with a new Document of the same folder, gives the fields
\* as they were saved; a folder without a record file loads as the empty
\* record.  Violated: for a user-relative folder the record is written and
\* read at the unexpanded path, not in the Document's folder.
C14_SaveLoadRoundTrip ==
    /\ (doc_op = "save" /\ doc_err = NoError) =>
          /\ d_info_file_path \in DOMAIN fs_files
          /\ fs_files[d_info_file_path] = DataToYaml(d_fields)
    /\ (doc_op = "load" /\ pre.saved) => d_fields = pre.fields
    /\ (doc_op = "from_folder" /\ pre.saved /\ d_folder = pre.folder)
          => d_fields = pre.fields
    /\ (doc_op = "from_folder" /\ d_info_file_path \notin DOMAIN fs_files)
          => d_fields = EmptyDict

-----------------------------------------------------------------------------
(* dump (document.py:383-403).  Keys are sequences of characters here, as *)
(* dump measures and orders them.                                         *)

MaxDumpKeys == 2        \* fields of a document handed to dump

\* keys of 1, 2, 3, 4, 5, 7 and 8 characters
DumpKeys ==
    { <<"a">>, <<"a", "b">>, <<"a", "b", "a">>, <<"b", "a", "b", "a">>,
      <<"a", "a", "b", "a", "b">>, <<"b", "b", "a", "a", "b", "a", "b">>,
      <<"a", "b", "b", "a", "a", "b", "a", "b">> }

DumpValues == { PyStr(<<"x", " ", "y">>), PyStr(<<>>), PyInt(12) }

\* from_data({'title': 'Hello World'}), the document of dump's doctest
TitleDoc ==
    [k \in {<<"t", "i", "t", "l", "e">>} |->
        PyStr(<<"H", "e", "l", "l", "o", " ", "W", "o", "r", "l", "d">>)]

\* the documents handed to dump: the empty one, the doctest's, and those
\* with up to MaxDumpKeys of the keys
DumpDocs ==
    {EmptyDict, TitleDoc}
    \cup UNION { [S -> DumpValues] :
                    S \in {T \in SUBSET DumpKeys :
                              T # {} /\ Cardinality(T) <= MaxDumpKeys} }

\* max(len(key) for key in document)
LongestKey(document) ==
    CHOOSE n \in {Len(k) : k \in DOMAIN document} :
        \A k \in DOMAIN document : Len(k) <= n

\* mutant: the width is the next multiple of 4 above the longest key
DumpWidthNextMultiple(longest) == (longest \div 4 + 1) * 4

\* document.py:398
DumpWidth(longest) == (longest \div 4 + 2) * 4 - 1

\* "{:{}}".format(chars, width): left-aligned, filled with spaces, never cut
RECURSIVE PadRight(_, _)
PadRight(chars, width) ==
    IF Len(chars) >= width THEN chars ELSE PadRight(chars \o <<" ">>, width)

\* the keys of sorted(document.items()): ascending by key
RECURSIVE SortedKeys(_)
SortedKeys(keys) ==
    IF keys = {} THEN <<>>
    ELSE LET least == CHOOSE k \in keys :
                         \A other \in keys \ {k} : ~StrLess(other, k)
         IN  <<least>> \o SortedKeys(keys \ {least})

\* "\n".join(lines)
RECURSIVE JoinLines(_)
JoinLines(lines) ==
    IF lines = <<>> THEN <<>>
    ELSE IF Len(lines) = 1 THEN lines[1]
    ELSE lines[1] \o <<"\n">> \o JoinLines(Tail(lines))

\* dump(document): ValueError for a document without fields (max of an
\* empty sequence)
Dump(document) ==
    IF DOMAIN document = {} THEN [err |-> "ValueError", text |-> <<>>]
    ELSE LET width == DumpWidth(LongestKey(document))
             keys  == SortedKeys(DOMAIN document)
         IN  [err |-> NoError,
              text |-> JoinLines([i \in DOMAIN keys |->
                          PadRight(keys[i] \o <<":">>, width)
                          \o FormatValue(document[keys[i]])])]

DumpInit ==
    /\ dump_doc \in DumpDocs
    /\ dump_pc = "call"
    /\ dumped = <<>>
    /\ UpdateIdle
    /\ ConvIdle
    /\ SortIdle
    /\ DocIdle

\* a call of dump
DumpCall ==
    /\ dump_pc = "call"
    /\ dumped' = Dump(dump_doc)
    /\ dump_pc' = "done"
    /\ UNCHANGED dump_doc
    /\ UNCHANGED <<update_vars, conv_vars, sort_vars, doc_vars>>

DumpNext == DumpCall

DumpSpec == DumpInit /\ [][DumpNext]_vars

-----------------------------------------------------------------------------
(* Claims about dump *)

\* dump returned a text
DumpDone == dump_pc = "done" /\ dumped.err = NoError

\* the text cut at its newlines
RECURSIVE SplitLines(_)
SplitLines(chars) ==
    IF \A i \in DOMAIN chars : chars[i] # "\n" THEN <<chars>>
    ELSE LET n == CHOOSE i \in DOMAIN chars :
                     chars[i] = "\n" /\ \A j \in 1..(i - 1) : chars[j] # "\n"
         IN  <<SubSeq(chars, 1, n - 1)>>
             \o SplitLines(SubSeq(chars, n + 1, Len(chars)))

\* the key a line starts with: what stands before its first colon
LineKey(line) ==
    LET n == CHOOSE i \in DOMAIN line :
                 line[i] = ":" /\ \A j \in 1..(i - 1) : line[j] # ":"
    IN  SubSeq(line, 1, n - 1)

\* the lines are one 'key:' line per field, ascending by key, each value
\* starting after column width with only spaces between 'key:' and it
AlignedAt(width) ==
    LET lines == SplitLines(dumped.text)
    IN  /\ Len(lines) = Cardinality(DOMAIN dump_doc)
        /\ \A i \in DOMAIN lines :
              \E k \in DOMAIN dump_doc :
                 /\ Len(lines[i]) >= width
                 /\ SubSeq(lines[i], 1, Len(k) + 1) = k \o <<":">>
                 /\ Len(k) + 1 < width
                 /\ \A j \in (Len(k) + 2)..width : lines[i][j] = " "
                 /\ SubSeq(lines[i], width + 1, Len(lines[i]))
                       = FormatValue(dump_doc[k])
        /\ \A i, j \in DOMAIN lines :
              i < j => StrLess(LineKey(lines[i]), LineKey(lines[j]))

=============================================================================
